---- MODULE Spec2Model ----
(***************************************************************************)
(* Leaf gas-exchange simulator: the physics evaluator (calculatePhysics),  *)
(* the two control panels that call it (the light-aware Controls.tsx and   *)
(* the simpler panel without light effects) and the App state cell that    *)
(* stores what the panels publish.                                         *)
(*                                                                         *)
(* Numbers.  A JavaScript number is modelled as a record                   *)
(*    [k |-> "num", n |-> numerator, d |-> denominator]   (lowest terms)   *)
(* or one of NaN, Infinity, NegInfinity; a field that an object does not   *)
(* have reads as `undefined`.  Finite arithmetic is exact rational         *)
(* arithmetic: IEEE-754 rounding and the sign of zero are not modelled.    *)
(***************************************************************************)
EXTENDS Integers, Sequences, FiniteSets, TLC

\* panel     which control panel is mounted: "light" (Controls.tsx) or "simple"
\* simState  App's state cell
\* state     the `state` prop the panel was last rendered with
\* lastCall  the evaluator call of the event handled last: arguments and result
\* lastEvent the control that raised the event handled last, and its value
\* events    number of control events handled so far
\* history   the flux chart's list of points
\* elapsed   time since the chart's interval timer was set, in ticks
\* samples   number of times the chart's interval callback has run in the behaviour
VARIABLES panel, simState, state, lastCall, lastEvent, events, history, elapsed, samples

vars == <<panel, simState, state, lastCall, lastEvent, events, history, elapsed, samples>>

\* `const x = v; F(x)`: v is evaluated once and F reads the value
Let(v, F(_)) == CHOOSE r \in {F(x) : x \in {v}} : TRUE

(***************************************************************************)
(* JavaScript number arithmetic                                            *)
(***************************************************************************)
Abs(x) == IF x < 0 THEN -x ELSE x

RECURSIVE GCD(_, _)
GCD(a0, b0) ==
    CHOOSE g \in {IF b = 0 THEN a ELSE GCD(b, a % b) : a \in {a0}, b \in {b0}} : TRUE

\* the finite number n/d (d # 0), in lowest terms with a positive denominator
Rat(n0, d0) ==
    CHOOSE r \in {Let(GCD(Abs(n), Abs(d)), LAMBDA g :
                      [k |-> "num",
                       n |-> ((IF d < 0 THEN -1 ELSE 1) * n) \div g,
                       d |-> Abs(d) \div g]) :
                  n \in {n0}, d \in {d0}} : TRUE

Int2Num(i) == [k |-> "num", n |-> i, d |-> 1]

NaN == [k |-> "NaN", n |-> 0, d |-> 1]

Infinity == [k |-> "Infinity", n |-> 1, d |-> 1]

NegInfinity == [k |-> "Infinity", n |-> -1, d |-> 1]

undefined == [k |-> "undefined", n |-> 0, d |-> 1]

\* ToNumber(undefined) is NaN
ToNumber(x) ==
    CHOOSE r \in {IF v.k = "undefined" THEN NaN ELSE v : v \in {x}} : TRUE

IsNaN(x) == ToNumber(x).k = "NaN"

IsFinite(x) == x.k = "num"

Sgn(x) == IF x.n > 0 THEN 1 ELSE IF x.n < 0 THEN -1 ELSE 0

SignedInfinity(s) == IF s = 0 THEN NaN ELSE IF s > 0 THEN Infinity ELSE NegInfinity

\* The operators below bind each operand once ({... : a \in {e}}) before they
\* inspect it, so an operand expression is evaluated a single time.
Neg(x0) ==
    CHOOSE r \in {IF x.k = "NaN" THEN NaN ELSE [x EXCEPT !.n = -x.n] :
                  x \in {ToNumber(x0)}} : TRUE

NumMul(a, b) ==
    IF a.k = "NaN" \/ b.k = "NaN" THEN NaN
    ELSE IF IsFinite(a) /\ IsFinite(b) THEN Rat(a.n * b.n, a.d * b.d)
    ELSE SignedInfinity(Sgn(a) * Sgn(b))

Mul(a0, b0) ==
    CHOOSE r \in {NumMul(a, b) : a \in {ToNumber(a0)}, b \in {ToNumber(b0)}} : TRUE

NumDiv(a, b) ==
    IF a.k = "NaN" \/ b.k = "NaN" THEN NaN
    ELSE IF IsFinite(a) /\ IsFinite(b)
         THEN IF b.n = 0 THEN SignedInfinity(Sgn(a))
              ELSE Rat(a.n * b.d, a.d * b.n)
    ELSE IF IsFinite(a) THEN Int2Num(0)
    ELSE IF IsFinite(b) THEN SignedInfinity(Sgn(a) * (IF b.n < 0 THEN -1 ELSE 1))
    ELSE NaN

Div(a0, b0) ==
    CHOOSE r \in {NumDiv(a, b) : a \in {ToNumber(a0)}, b \in {ToNumber(b0)}} : TRUE

NumAdd(a, b) ==
    IF a.k = "NaN" \/ b.k = "NaN" THEN NaN
    ELSE IF IsFinite(a) /\ IsFinite(b) THEN Rat(a.n * b.d + b.n * a.d, a.d * b.d)
    ELSE IF IsFinite(a) THEN b
    ELSE IF IsFinite(b) THEN a
    ELSE IF a = b THEN a ELSE NaN

Add(a0, b0) ==
    CHOOSE r \in {NumAdd(a, b) : a \in {ToNumber(a0)}, b \in {ToNumber(b0)}} : TRUE

Sub(a, b) == Add(a, Neg(b))

\* a < b on numbers; false when either side is NaN
NumLt(a, b) ==
    IF a.k = "NaN" \/ b.k = "NaN" THEN FALSE
    ELSE IF IsFinite(a) /\ IsFinite(b) THEN a.n * b.d < b.n * a.d
    ELSE IF IsFinite(a) THEN b = Infinity
    ELSE IF IsFinite(b) THEN a = NegInfinity
    ELSE a = NegInfinity /\ b = Infinity

Lt(a0, b0) == \E a \in {ToNumber(a0)}, b \in {ToNumber(b0)} : NumLt(a, b)

Gt(a, b) == Lt(b, a)

\* a <= b; false when either side is NaN
Le(a0, b0) ==
    \E a \in {ToNumber(a0)}, b \in {ToNumber(b0)} :
        NumLt(a, b) \/ (a.k # "NaN" /\ a = b)

Ge(a, b) == Le(b, a)

MathMin(a0, b0) ==
    CHOOSE r \in {IF a.k = "NaN" \/ b.k = "NaN" THEN NaN
                  ELSE IF NumLt(b, a) THEN b ELSE a :
                  a \in {ToNumber(a0)}, b \in {ToNumber(b0)}} : TRUE

MathMax(a0, b0) ==
    CHOOSE r \in {IF a.k = "NaN" \/ b.k = "NaN" THEN NaN
                  ELSE IF NumLt(a, b) THEN b ELSE a :
                  a \in {ToNumber(a0)}, b \in {ToNumber(b0)}} : TRUE

(***************************************************************************)
(* Types and constants                                                     *)
(***************************************************************************)
GravityMode == [EARTH_1G |-> "EARTH_1G", MICRO_UG |-> "MICRO_UG"]

\* The fields a SimulationState can carry.  The declared interface and the
\* initial snapshot have the first eleven; the light-aware panel reads and
\* publishes the last three as well.
StateFields ==
    {"gravityMode", "gravityFactor", "airVelocity", "boundaryLayerThickness",
     "co2Flux", "o2Flux", "temperature", "ambientTemperature", "stressLevel",
     "ambientCO2", "ambientO2",
     "lightIntensity", "lightColor", "photosyntheticEfficiency"}

\* A field the snapshot does not set reads as undefined (the string
\* "undefined" for the one string-valued field).
INITIAL_STATE ==
    [gravityMode |-> GravityMode.EARTH_1G,
     gravityFactor |-> Rat(1, 1),
     airVelocity |-> Rat(1, 1),
     boundaryLayerThickness |-> Rat(4, 10),
     co2Flux |-> Int2Num(50),
     o2Flux |-> Int2Num(45),
     temperature |-> Int2Num(22),
     ambientTemperature |-> Int2Num(22),
     stressLevel |-> Int2Num(0),
     ambientCO2 |-> Int2Num(400),
     ambientO2 |-> Int2Num(21),
     lightIntensity |-> undefined,
     lightColor |-> "undefined",
     photosyntheticEfficiency |-> undefined]

LIGHT_COLORS ==
    << [name |-> "White",   value |-> "#ffffff", spectrum |-> Rat(9, 10)],
       [name |-> "Red",     value |-> "#ff0000", spectrum |-> Rat(1, 1)],
       [name |-> "Blue",    value |-> "#0000ff", spectrum |-> Rat(1, 1)],
       [name |-> "Green",   value |-> "#00ff00", spectrum |-> Rat(4, 10)],
       [name |-> "Far-Red", value |-> "#8b0000", spectrum |-> Rat(2, 10)] >>

\* LIGHT_COLORS.find(c => c.value === lightCol) || LIGHT_COLORS[0]
FindLightInfo(lightCol) ==
    LET hits == {i \in 1..Len(LIGHT_COLORS) : LIGHT_COLORS[i].value = lightCol}
    IN  IF hits = {} THEN LIGHT_COLORS[1]
        ELSE LIGHT_COLORS[CHOOSE i \in hits : \A j \in hits : i <= j]

(***************************************************************************)
(* The physics evaluator                                                   *)
(***************************************************************************)
\* mutant of VelocityScrub: the velocity factor multiplies instead of dividing
VelocityScrubMultiplies(userThickness, velocity) ==
    Mul(userThickness, Add(Int2Num(1), Mul(velocity, Rat(1, 2))))

\* thickness / (1.0 + velocity * 0.5)
VelocityScrub(userThickness, velocity) ==
    Div(userThickness, Add(Int2Num(1), Mul(velocity, Rat(1, 2))))

\* mutant of ClampThickness: the floor 0.2 is not applied
ClampThicknessNoFloor(thickness) == MathMin(thickness, Int2Num(4))

\* mutant of ClampThickness: the ceiling 4.0 is not applied
ClampThicknessNoCeiling(thickness) == MathMax(thickness, Rat(2, 10))

\* Math.min(Math.max(thickness, 0.2), 4.0)
ClampThickness(thickness) ==
    MathMin(MathMax(thickness, Rat(2, 10)), Int2Num(4))

\* mutant of Co2Flux: the resistance is the thickness itself, not twice it
Co2FluxResistanceNotDoubled(co2Lvl, clampedThickness) ==
    Div(Mul(co2Lvl, Rat(2, 10)), MathMax(clampedThickness, Rat(1, 2)))

\* mutant of Co2Flux: the resistance is not floored at 0.5
Co2FluxNoFloor(co2Lvl, clampedThickness) ==
    Div(Mul(co2Lvl, Rat(2, 10)), Mul(clampedThickness, Int2Num(2)))

\* (co2Lvl * 0.2) / Math.max(resistance, 0.5), resistance = clampedThickness * 2.0
Co2Flux(co2Lvl, clampedThickness) ==
    LET resistance == Mul(clampedThickness, Int2Num(2))
    IN  Div(Mul(co2Lvl, Rat(2, 10)), MathMax(resistance, Rat(1, 2)))

\* mutant of O2Flux: the ratio is applied twice
O2FluxRatioTwice(calcCo2Flux) == Mul(Mul(calcCo2Flux, Rat(9, 10)), Rat(9, 10))

\* calcCo2Flux * 0.9
O2Flux(calcCo2Flux) == Mul(calcCo2Flux, Rat(9, 10))

\* mutant of TempPenalty: no penalty below 15 degrees
TempPenaltyHotOnly(leafTemp) ==
    IF Gt(leafTemp, Int2Num(30))
    THEN MathMax(Int2Num(0), Sub(Int2Num(1), Mul(Sub(leafTemp, Int2Num(30)), Rat(1, 10))))
    ELSE Int2Num(1)

\* the two `if (leafTemp ...) tempPenalty = ...` statements, in order
TempPenalty(leafTemp) ==
    LET hot  == IF Gt(leafTemp, Int2Num(30))
                THEN MathMax(Int2Num(0),
                             Sub(Int2Num(1), Mul(Sub(leafTemp, Int2Num(30)), Rat(1, 10))))
                ELSE Int2Num(1)
    IN  IF Lt(leafTemp, Int2Num(15))
        THEN MathMax(Int2Num(0),
                     Sub(Int2Num(1), Mul(Sub(Int2Num(15), leafTemp), Rat(1, 10))))
        ELSE hot

\* mutant of Efficiency: the product is not clamped to [0, 100]
EfficiencyUnclamped(lightInt, lightCol, leafTemp, calcCo2Flux) ==
    Mul(Mul(Mul(Mul(Int2Num(100), FindLightInfo(lightCol).spectrum),
                MathMin(Div(lightInt, Int2Num(2)), Rat(12, 10))),
            TempPenalty(leafTemp)),
        MathMin(Div(calcCo2Flux, Int2Num(40)), Int2Num(1)))

\* 100 * spectrum * intensityFactor * tempPenalty * co2Penalty, clamped to [0, 100]
Efficiency(lightInt, lightCol, leafTemp, calcCo2Flux) ==
    LET spectrumEfficiency == FindLightInfo(lightCol).spectrum
        intensityFactor    == MathMin(Div(lightInt, Int2Num(2)), Rat(12, 10))
        tempPenalty        == TempPenalty(leafTemp)
        co2Penalty         == MathMin(Div(calcCo2Flux, Int2Num(40)), Int2Num(1))
        efficiency         == Mul(Mul(Mul(Mul(Int2Num(100), spectrumEfficiency),
                                          intensityFactor), tempPenalty), co2Penalty)
    IN  MathMin(MathMax(efficiency, Int2Num(0)), Int2Num(100))

\* mutant of StressBase: the flux penalty applies at co2Flux <= 15
StressBaseFluxNotStrict(clampedThickness, calcCo2Flux, leafTemp) ==
    Let(IF Gt(clampedThickness, Rat(3, 2)) THEN Add(Int2Num(10), Int2Num(30))
        ELSE Int2Num(10),
        LAMBDA s1 :
    Let(IF Le(calcCo2Flux, Int2Num(15)) THEN Add(s1, Int2Num(30)) ELSE s1,
        LAMBDA s2 :
        IF Gt(leafTemp, Int2Num(30))
        THEN Add(s2, Mul(Sub(leafTemp, Int2Num(30)), Int2Num(5)))
        ELSE s2))

\* stress = 10 and the three penalties both panels apply
StressBase(clampedThickness, calcCo2Flux, leafTemp) ==
    Let(IF Gt(clampedThickness, Rat(3, 2)) THEN Add(Int2Num(10), Int2Num(30))
        ELSE Int2Num(10),
        LAMBDA s1 :
    Let(IF Lt(calcCo2Flux, Int2Num(15)) THEN Add(s1, Int2Num(30)) ELSE s1,
        LAMBDA s2 :
        IF Gt(leafTemp, Int2Num(30))
        THEN Add(s2, Mul(Sub(leafTemp, Int2Num(30)), Int2Num(5)))
        ELSE s2))

\* mutant of StressLight: the low-efficiency penalty is left out
StressLightNoEfficiencyPenalty(s3, efficiency) == MathMin(s3, Int2Num(100))

\* `if (efficiency < 30) stress += 20; stress = Math.min(stress, 100)`
StressLight(s3, efficiency) ==
    MathMin(IF Lt(efficiency, Int2Num(30)) THEN Add(s3, Int2Num(20)) ELSE s3,
            Int2Num(100))

\* mutant of calculatePhysics: convectionFactor = 0.2 + gravity * 0.8 divides the thickness
calculatePhysicsConvection(gravity, velocity, userThickness, co2Lvl, o2Lvl, ambientTemp, lightInt, lightCol) ==
    Let(ClampThickness(VelocityScrub(Div(userThickness,
                                         Add(Rat(2, 10), Mul(gravity, Rat(8, 10)))),
                                     velocity)),
        LAMBDA clampedThickness :
    Let(Co2Flux(co2Lvl, clampedThickness),
        LAMBDA calcCo2Flux :
    Let(Add(Add(ambientTemp, Mul(clampedThickness, Int2Num(3))),
            Mul(lightInt, Rat(5, 2))),
        LAMBDA leafTemp :
    Let(Efficiency(lightInt, lightCol, leafTemp, calcCo2Flux),
        LAMBDA efficiency :
        [boundaryLayerThickness |-> clampedThickness,
         co2Flux |-> calcCo2Flux,
         o2Flux |-> O2Flux(calcCo2Flux),
         stressLevel |-> StressLight(StressBase(clampedThickness, calcCo2Flux, leafTemp),
                                     efficiency),
         temperature |-> leafTemp,
         photosyntheticEfficiency |-> efficiency]))))

\* Controls.tsx (light-aware panel)
calculatePhysics(gravity, velocity, userThickness, co2Lvl, o2Lvl, ambientTemp, lightInt, lightCol) ==
    Let(ClampThickness(VelocityScrub(userThickness, velocity)),
        LAMBDA clampedThickness :
    Let(Co2Flux(co2Lvl, clampedThickness),
        LAMBDA calcCo2Flux :
    Let(Add(Add(ambientTemp, Mul(clampedThickness, Int2Num(3))),
            Mul(lightInt, Rat(5, 2))),
        LAMBDA leafTemp :
    Let(Efficiency(lightInt, lightCol, leafTemp, calcCo2Flux),
        LAMBDA efficiency :
        [boundaryLayerThickness |-> clampedThickness,
         co2Flux |-> calcCo2Flux,
         o2Flux |-> O2Flux(calcCo2Flux),
         stressLevel |-> StressLight(StressBase(clampedThickness, calcCo2Flux, leafTemp),
                                     efficiency),
         temperature |-> leafTemp,
         photosyntheticEfficiency |-> efficiency]))))

\* the simpler panel's evaluator: no light terms, no efficiency
calculatePhysicsSimple(gravity, velocity, userThickness, co2Lvl, o2Lvl, ambientTemp) ==
    Let(ClampThickness(VelocityScrub(userThickness, velocity)),
        LAMBDA clampedThickness :
    Let(Co2Flux(co2Lvl, clampedThickness),
        LAMBDA calcCo2Flux :
    Let(Add(ambientTemp, Mul(clampedThickness, Int2Num(3))),
        LAMBDA leafTemp :
        [boundaryLayerThickness |-> clampedThickness,
         co2Flux |-> calcCo2Flux,
         o2Flux |-> O2Flux(calcCo2Flux),
         stressLevel |-> MathMin(StressBase(clampedThickness, calcCo2Flux, leafTemp),
                                 Int2Num(100)),
         temperature |-> leafTemp])))

(***************************************************************************)
(* Bounds and the control values the events are drawn from                 *)
(***************************************************************************)
\* control events handled in one run
MaxEvents == 4

\* values of the range inputs (each inside the input's min..max, on its step)
GravityValues == {Rat(0, 1), Rat(1, 2)}

ThicknessValues == {Rat(2, 10), Int2Num(4)}

VelocityValues == {Int2Num(0), Int2Num(5)}

LightIntensityValues == {Int2Num(0), Int2Num(5)}

AmbientTempValues == {Int2Num(15), Int2Num(35)}

CO2Values == {Int2Num(200), Int2Num(1500)}

O2Values == {Int2Num(30)}

(***************************************************************************)
(* App: the state cell                                                     *)
(***************************************************************************)
\* mutant of Spread: the updates are laid over the initial snapshot, not over prev
SpreadOntoInitial(prev, updates) ==
    CHOOSE r \in {[f \in StateFields |-> IF f \in DOMAIN u THEN u[f] ELSE INITIAL_STATE[f]] :
                  u \in {updates}} : TRUE

\* { ...prev, ...updates }
Spread(prev, updates) ==
    CHOOSE r \in {[f \in StateFields |-> IF f \in DOMAIN u THEN u[f] ELSE p[f]] :
                  p \in {prev}, u \in {updates}} : TRUE

\* setSimState(prev => ({ ...prev, ...updates }))
handleStateUpdate(prev, updates) == Spread(prev, updates)

(***************************************************************************)
(* The evaluator call a handler makes                                      *)
(***************************************************************************)
NoCall ==
    [phase |-> "none", fn |-> "none",
     gravity |-> undefined, velocity |-> undefined, userThickness |-> undefined,
     co2Lvl |-> undefined, o2Lvl |-> undefined, ambientTemp |-> undefined,
     lightInt |-> undefined, lightCol |-> "undefined",
     result |-> [boundaryLayerThickness |-> undefined]]

Call(fn, gravity, velocity, userThickness, co2Lvl, o2Lvl, ambientTemp, lightInt, lightCol) ==
    [phase |-> "called", fn |-> fn,
     gravity |-> gravity, velocity |-> velocity, userThickness |-> userThickness,
     co2Lvl |-> co2Lvl, o2Lvl |-> o2Lvl, ambientTemp |-> ambientTemp,
     lightInt |-> lightInt, lightCol |-> lightCol,
     result |-> [boundaryLayerThickness |-> undefined]]

\* run the called evaluator on the call's arguments
Return(c0) ==
    Let(c0, LAMBDA c :
    [c EXCEPT !.phase = "returned",
              !.result = IF c.fn = "calculatePhysics"
                         THEN calculatePhysics(c.gravity, c.velocity, c.userThickness,
                                               c.co2Lvl, c.o2Lvl, c.ambientTemp,
                                               c.lightInt, c.lightCol)
                         ELSE calculatePhysicsSimple(c.gravity, c.velocity, c.userThickness,
                                                     c.co2Lvl, c.o2Lvl, c.ambientTemp)])

(***************************************************************************)
(* Light-aware panel (Controls.tsx)                                        *)
(***************************************************************************)
\* mutant of BaseThickness: the overrides are ignored, the stored thickness is used
BaseThicknessFromState(st, overrides) == st.boundaryLayerThickness

\* mutant of BaseThickness: without an override the initial snapshot's thickness is used
BaseThicknessFromInitial(st, overrides) ==
    IF "boundaryLayerThickness" \in DOMAIN overrides
       /\ overrides.boundaryLayerThickness # undefined
    THEN overrides.boundaryLayerThickness
    ELSE INITIAL_STATE.boundaryLayerThickness

\* the base thickness updateState hands to calculatePhysics
BaseThickness(st, overrides) ==
    IF "boundaryLayerThickness" \in DOMAIN overrides
       /\ overrides.boundaryLayerThickness # undefined
    THEN overrides.boundaryLayerThickness
    ELSE st.boundaryLayerThickness

\* updateState: [call |-> the evaluator call, updates |-> the argument of onUpdate]
updateState(st, overrides) ==
    Let(Spread(st, overrides), LAMBDA merged :
    Let(Return(Call("calculatePhysics",
                    merged.gravityFactor, merged.airVelocity,
                    BaseThickness(st, overrides),
                    merged.ambientCO2, merged.ambientO2, merged.ambientTemperature,
                    merged.lightIntensity, merged.lightColor)), LAMBDA c :
        [call |-> c, updates |-> Spread(merged, c.result)]))

\* mutant of handlePreset: the canonical base thickness is not put in the overrides
handlePresetKeepsThickness(st, mode) ==
    updateState(st, [gravityMode |-> mode,
                     gravityFactor |-> IF mode = GravityMode.EARTH_1G
                                       THEN Rat(1, 1) ELSE Rat(0, 1)])

\* mutant of handlePreset: the preset is applied to the initial snapshot
handlePresetFromInitial(st, mode) ==
    updateState(INITIAL_STATE,
                [gravityMode |-> mode,
                 gravityFactor |-> IF mode = GravityMode.EARTH_1G
                                   THEN Rat(1, 1) ELSE Rat(0, 1),
                 boundaryLayerThickness |-> IF mode = GravityMode.EARTH_1G
                                            THEN Rat(4, 10) ELSE Rat(25, 10)])

handlePreset(st, mode) ==
    LET isEarth == mode = GravityMode.EARTH_1G
        newGravity == IF isEarth THEN Rat(1, 1) ELSE Rat(0, 1)
        newThickness == IF isEarth THEN Rat(4, 10) ELSE Rat(25, 10)
    IN  updateState(st, [gravityMode |-> mode,
                         gravityFactor |-> newGravity,
                         boundaryLayerThickness |-> newThickness])

(***************************************************************************)
(* Simpler panel (no light effects)                                        *)
(***************************************************************************)
handlePresetSimple(st, mode) ==
    LET isEarth == mode = GravityMode.EARTH_1G
        newGravity == IF isEarth THEN Rat(1, 1) ELSE Rat(0, 1)
        newThickness == IF isEarth THEN Rat(4, 10) ELSE Rat(25, 10)
        velocity == st.airVelocity
    IN  Let(Return(Call("calculatePhysicsSimple", newGravity, velocity, newThickness,
                         st.ambientCO2, st.ambientO2, st.ambientTemperature,
                         undefined, "undefined")), LAMBDA c :
        [call |-> c,
         updates |-> [gravityMode |-> mode, gravityFactor |-> newGravity] @@ c.result])

handleGravitySlide(st, val) ==
    Let(Return(Call("calculatePhysicsSimple", val, st.airVelocity,
                         Mul(st.boundaryLayerThickness,
                             Add(Int2Num(1), Sub(Int2Num(1), val))),
                         st.ambientCO2, st.ambientO2, st.ambientTemperature,
                         undefined, "undefined")), LAMBDA c :
        [call |-> c,
         updates |-> [gravityFactor |-> val,
                      gravityMode |-> IF Gt(val, Rat(1, 2)) THEN GravityMode.EARTH_1G
                                      ELSE GravityMode.MICRO_UG] @@ c.result])

handleVelocityChange(st, velocity) ==
    Let(Return(Call("calculatePhysicsSimple", st.gravityFactor, velocity,
                         st.boundaryLayerThickness,
                         st.ambientCO2, st.ambientO2, st.ambientTemperature,
                         undefined, "undefined")), LAMBDA c :
        [call |-> c, updates |-> [airVelocity |-> velocity] @@ c.result])

handleThicknessChange(st, val) ==
    Let(Return(Call("calculatePhysicsSimple", st.gravityFactor, st.airVelocity, val,
                         st.ambientCO2, st.ambientO2, st.ambientTemperature,
                         undefined, "undefined")), LAMBDA c :
        [call |-> c, updates |-> [boundaryLayerThickness |-> val] @@ c.result])

handleGasChange(st, type, val) ==
    LET newCo2 == IF type = "co2" THEN val ELSE st.ambientCO2
        newO2 == IF type = "o2" THEN val ELSE st.ambientO2
    IN  Let(Return(Call("calculatePhysicsSimple", st.gravityFactor, st.airVelocity,
                         st.boundaryLayerThickness, newCo2, newO2, st.ambientTemperature,
                         undefined, "undefined")), LAMBDA c :
        [call |-> c, updates |-> [ambientCO2 |-> newCo2, ambientO2 |-> newO2] @@ c.result])

handleTempChange(st, val) ==
    Let(Return(Call("calculatePhysicsSimple", st.gravityFactor, st.airVelocity,
                         st.boundaryLayerThickness, st.ambientCO2, st.ambientO2, val,
                         undefined, "undefined")), LAMBDA c :
        [call |-> c, updates |-> [ambientTemperature |-> val] @@ c.result])

(***************************************************************************)
(* Events                                                                  *)
(***************************************************************************)
NoEvent == [control |-> "none", value |-> "none"]

(***************************************************************************)
(* The flux chart: its history and its interval timer                      *)
(***************************************************************************)
\* the mount effect's `for (let i = 0; i < 20; i++)`
InitialPoints == 20

\* `if (newHistory.length > 30) newHistory.shift()`
HistoryCap == 30

\* a point's time: the index i of a mount-time point, or a clock label
IndexTime(i) == [k |-> "index", v |-> ToString(i)]

\* `${now.getHours()}:${now.getMinutes()}:${now.getSeconds()}`: the clock is
\* outside the modelled state, the label stands for its reading
ClockLabels == {"h:m:s"}

LabelTime(label) == [k |-> "label", v |-> label]

\* initialData: 20 points { time: i, co2: 50, o2: 45 }
initialData ==
    [i \in 1..InitialPoints |->
        [time |-> IndexTime(i - 1), co2 |-> Int2Num(50), o2 |-> Int2Num(45)]]

\* values Math.random() returns: in [0, 1)
Random01 == {Rat(0, 1), Rat(1, 2)}

\* the interval callback's newPoint, r1 and r2 the two Math.random() results
NewPoint(st, label, r1, r2) ==
    [time |-> LabelTime(label),
     co2 |-> MathMax(Int2Num(0),
                     Add(st.co2Flux, Mul(Sub(r1, Rat(1, 2)), Int2Num(4)))),
     o2 |-> MathMax(Int2Num(0),
                    Add(st.o2Flux, Mul(Sub(r2, Rat(1, 2)), Int2Num(3))))]

\* mutant of AppendPoint: over the cap, the newest point is removed, not the oldest
AppendPointDropsNewest(prev, newPoint) ==
    Let(Append(prev, newPoint), LAMBDA newHistory :
        IF Len(newHistory) > HistoryCap
        THEN SubSeq(newHistory, 1, Len(newHistory) - 1) ELSE newHistory)

\* newHistory = [...prev, newPoint]; if (newHistory.length > 30) newHistory.shift()
AppendPoint(prev, newPoint) ==
    Let(Append(prev, newPoint), LAMBDA newHistory :
        IF Len(newHistory) > HistoryCap THEN Tail(newHistory) ELSE newHistory)

\* The interval effect has dependencies [state.co2Flux, state.o2Flux]: when a
\* render changes either, the cleanup clears the interval and the effect sets
\* a new one, which starts its 500 ms again; otherwise the timer runs on.
EffectElapsed(rendered, next, e) ==
    IF rendered.co2Flux # next.co2Flux \/ rendered.o2Flux # next.o2Flux THEN 0 ELSE e

Init ==
    /\ panel \in {"light", "simple"}
    /\ simState = INITIAL_STATE
    /\ state = INITIAL_STATE
    /\ lastCall = NoCall
    /\ lastEvent = NoEvent
    /\ events = 0
    /\ history = initialData
    /\ elapsed = 0
    /\ samples = 0

\* A handler runs against the rendered props and publishes through onUpdate;
\* the panel is rendered again with the stored state before the next event.
Publish(control, value, handled) ==
    /\ \E h \in {handled} :
          /\ simState' = handleStateUpdate(simState, h.updates)
          /\ state' = simState'
          /\ lastCall' = h.call
    /\ lastEvent' = [control |-> control, value |-> value]
    /\ events' = events + 1
    /\ elapsed' = EffectElapsed(state, state', elapsed)
    /\ UNCHANGED <<panel, history, samples>>

Dispatch(control, value, handled) ==
    /\ events < MaxEvents
    /\ Publish(control, value, handled)

Modes == {GravityMode.EARTH_1G, GravityMode.MICRO_UG}

LightPreset ==
    /\ panel = "light"
    /\ \E mode \in Modes : Dispatch("preset", mode, handlePreset(state, mode))

LightGravity ==
    /\ panel = "light"
    /\ \E val \in GravityValues :
          Dispatch("gravity", val, updateState(state, [gravityFactor |-> val]))

LightThickness ==
    /\ panel = "light"
    /\ \E val \in ThicknessValues :
          Dispatch("thickness", val, updateState(state, [boundaryLayerThickness |-> val]))

LightVelocity ==
    /\ panel = "light"
    /\ \E val \in VelocityValues :
          Dispatch("velocity", val, updateState(state, [airVelocity |-> val]))

LightColor ==
    /\ panel = "light"
    /\ \E i \in 1..Len(LIGHT_COLORS) :
          Dispatch("color", LIGHT_COLORS[i].value,
                   updateState(state, [lightColor |-> LIGHT_COLORS[i].value]))

LightIntensity ==
    /\ panel = "light"
    /\ \E val \in LightIntensityValues :
          Dispatch("intensity", val, updateState(state, [lightIntensity |-> val]))

LightAmbientTemp ==
    /\ panel = "light"
    /\ \E val \in AmbientTempValues :
          Dispatch("temp", val, updateState(state, [ambientTemperature |-> val]))

LightCO2 ==
    /\ panel = "light"
    /\ \E val \in CO2Values : Dispatch("co2", val, updateState(state, [ambientCO2 |-> val]))

LightO2 ==
    /\ panel = "light"
    /\ \E val \in O2Values : Dispatch("o2", val, updateState(state, [ambientO2 |-> val]))

SimplePreset ==
    /\ panel = "simple"
    /\ \E mode \in Modes : Dispatch("preset", mode, handlePresetSimple(state, mode))

SimpleGravity ==
    /\ panel = "simple"
    /\ \E val \in GravityValues : Dispatch("gravity", val, handleGravitySlide(state, val))

SimpleVelocity ==
    /\ panel = "simple"
    /\ \E val \in VelocityValues : Dispatch("velocity", val, handleVelocityChange(state, val))

SimpleThickness ==
    /\ panel = "simple"
    /\ \E val \in ThicknessValues : Dispatch("thickness", val, handleThicknessChange(state, val))

SimpleCO2 ==
    /\ panel = "simple"
    /\ \E val \in CO2Values : Dispatch("co2", val, handleGasChange(state, "co2", val))

SimpleO2 ==
    /\ panel = "simple"
    /\ \E val \in O2Values : Dispatch("o2", val, handleGasChange(state, "o2", val))

SimpleTemp ==
    /\ panel = "simple"
    /\ \E val \in AmbientTempValues : Dispatch("temp", val, handleTempChange(state, val))

Next ==
    \/ LightPreset \/ LightGravity \/ LightThickness \/ LightVelocity \/ LightColor
    \/ LightIntensity \/ LightAmbientTemp \/ LightCO2 \/ LightO2
    \/ SimplePreset \/ SimpleGravity \/ SimpleVelocity \/ SimpleThickness
    \/ SimpleCO2 \/ SimpleO2 \/ SimpleTemp

Spec == Init /\ [][Next]_vars

(***************************************************************************)
(* Events handled before the panel is rendered again.  A handler reads the *)
(* `state` prop of the render it was created in; setSimState queues the    *)
(* functional update, which is applied to the latest stored state, and the *)
(* panel gets the stored state as its prop at the next render.             *)
(***************************************************************************)
\* control events handled in one run of SpecBatch
MaxBatchEvents == 2

\* the controls the mounted panel renders
PanelControls(p) ==
    {"preset", "gravity", "thickness", "velocity", "temp", "co2", "o2"}
    \cup (IF p = "light" THEN {"color", "intensity"} ELSE {})

\* the values a control can hand to its handler
ControlValues(control) ==
    CASE control = "preset"    -> Modes
      [] control = "gravity"   -> GravityValues
      [] control = "thickness" -> ThicknessValues
      [] control = "velocity"  -> VelocityValues
      [] control = "color"     -> {LIGHT_COLORS[i].value : i \in 1..Len(LIGHT_COLORS)}
      [] control = "intensity" -> LightIntensityValues
      [] control = "temp"      -> AmbientTempValues
      [] control = "co2"       -> CO2Values
      [] control = "o2"        -> O2Values

\* the handler the panel attaches to the control, run with st as its `state`
RunHandler(p, ev, st) ==
    IF p = "light"
    THEN CASE ev.control = "preset"    -> handlePreset(st, ev.value)
           [] ev.control = "gravity"   -> updateState(st, [gravityFactor |-> ev.value])
           [] ev.control = "thickness" ->
                  updateState(st, [boundaryLayerThickness |-> ev.value])
           [] ev.control = "velocity"  -> updateState(st, [airVelocity |-> ev.value])
           [] ev.control = "color"     -> updateState(st, [lightColor |-> ev.value])
           [] ev.control = "intensity" -> updateState(st, [lightIntensity |-> ev.value])
           [] ev.control = "temp"      -> updateState(st, [ambientTemperature |-> ev.value])
           [] ev.control = "co2"       -> updateState(st, [ambientCO2 |-> ev.value])
           [] ev.control = "o2"        -> updateState(st, [ambientO2 |-> ev.value])
    ELSE CASE ev.control = "preset"    -> handlePresetSimple(st, ev.value)
           [] ev.control = "gravity"   -> handleGravitySlide(st, ev.value)
           [] ev.control = "thickness" -> handleThicknessChange(st, ev.value)
           [] ev.control = "velocity"  -> handleVelocityChange(st, ev.value)
           [] ev.control = "temp"      -> handleTempChange(st, ev.value)
           [] ev.control = "co2"       -> handleGasChange(st, "co2", ev.value)
           [] ev.control = "o2"        -> handleGasChange(st, "o2", ev.value)

\* a control event: the handler of the current render runs and queues its update
HandleEvent ==
    /\ events < MaxBatchEvents
    /\ \E control \in PanelControls(panel) :
          \E value \in ControlValues(control) :
             /\ lastEvent' = [control |-> control, value |-> value]
             /\ \E h \in {RunHandler(panel, lastEvent', state)} :
                   /\ simState' = handleStateUpdate(simState, h.updates)
                   /\ lastCall' = h.call
    /\ events' = events + 1
    /\ UNCHANGED <<panel, state, history, elapsed, samples>>

\* App renders: <Controls state={simState} .../>
Render ==
    /\ state # simState
    /\ state' = simState
    /\ elapsed' = EffectElapsed(state, state', elapsed)
    /\ UNCHANGED <<panel, simState, lastCall, lastEvent, events, history, samples>>

NextBatch == HandleEvent \/ Render

SpecBatch == Init /\ [][NextBatch]_vars

(***************************************************************************)
(* The chart's timer next to the control events.  One interval is           *)
(* TicksPerInterval ticks long; the callback runs when a set timer has      *)
(* run for a whole interval.                                               *)
(***************************************************************************)
\* ticks the model tells apart within one 500 ms interval
TicksPerInterval == 2

\* control events handled in one run of SpecChart
MaxChartEvents == 1

\* interval callbacks run in one run of SpecChart
MaxSamples == 2

\* a control event, handled and rendered, while the chart is mounted
ChartEvent ==
    /\ events < MaxChartEvents
    /\ \E control \in PanelControls(panel) :
          \E value \in ControlValues(control) :
             Publish(control, value,
                     RunHandler(panel, [control |-> control, value |-> value], state))

\* a tick passes and the interval is not over yet
Tick ==
    /\ elapsed + 1 < TicksPerInterval
    /\ elapsed' = elapsed + 1
    /\ UNCHANGED <<panel, simState, state, lastCall, lastEvent, events, history, samples>>

\* a tick passes and completes the interval: the callback appends a sample
Sample ==
    /\ samples < MaxSamples
    /\ elapsed + 1 = TicksPerInterval
    /\ \E label \in ClockLabels, r1 \in Random01, r2 \in Random01 :
          history' = AppendPoint(history, NewPoint(state, label, r1, r2))
    /\ elapsed' = 0
    /\ samples' = samples + 1
    /\ UNCHANGED <<panel, simState, state, lastCall, lastEvent, events>>

NextChart == ChartEvent \/ Tick \/ Sample

SpecChart == Init /\ [][NextChart]_vars

(***************************************************************************)
(* The chart's history near its cap.  A behaviour starts at mount or after  *)
(* the interval callback has already run 9 or 10 times on the initial      *)
(* snapshot, and then takes ticks and samples.                             *)
(***************************************************************************)
\* callbacks already run when a behaviour of SpecWindow starts: none (mount),
\* one short of filling the window, or just enough to fill it
PrefilledSamples ==
    {0, HistoryCap - InitialPoints - 1, HistoryCap - InitialPoints}

\* the point the j-th of those callbacks appended, its two Math.random()
\* results taken in turn from Random01
EarlierPoint(j) ==
    NewPoint(INITIAL_STATE, "h:m:s",
             IF j % 2 = 0 THEN Rat(0, 1) ELSE Rat(1, 2),
             IF (j \div 2) % 2 = 0 THEN Rat(0, 1) ELSE Rat(1, 2))

\* the history after mount and k callbacks, k <= 10
PrefilledHistory(k) == initialData \o [j \in 1..k |-> EarlierPoint(j)]

InitWindow ==
    /\ panel \in {"light", "simple"}
    /\ simState = INITIAL_STATE
    /\ state = INITIAL_STATE
    /\ lastCall = NoCall
    /\ lastEvent = NoEvent
    /\ events = 0
    /\ history \in {PrefilledHistory(k) : k \in PrefilledSamples}
    /\ elapsed = 0
    /\ samples = 0

NextWindow == Tick \/ Sample

SpecWindow == InitWindow /\ [][NextWindow]_vars

(***************************************************************************)
(* The evaluators on their own: one call per behaviour, arguments drawn    *)
(* from inside and outside the declared input ranges                       *)
(***************************************************************************)
EvalGravity == {Int2Num(0), Int2Num(1)}

EvalVelocity == {Int2Num(-4), Int2Num(-2), Int2Num(0), Int2Num(1), Int2Num(5)}

EvalThickness == {Int2Num(-1), Int2Num(0), Rat(2, 10), Rat(1, 4), Rat(4, 10),
                  Rat(3, 2), Rat(25, 10), Int2Num(4), Int2Num(10)}

EvalCO2 == {Int2Num(0), Int2Num(200), Int2Num(400), Int2Num(1500)}

EvalO2 == {Int2Num(21)}

EvalAmbientTemp == {Int2Num(0), Int2Num(15), Int2Num(22), Rat(47, 2), Int2Num(35)}

EvalLightIntensity == {Int2Num(0), Int2Num(2), Int2Num(5)}

EvalLightColor == {LIGHT_COLORS[i].value : i \in 1..Len(LIGHT_COLORS)} \cup {"#123456"}

EvalCalls ==
    {Call("calculatePhysics", g, v, t, c, o, a, li, lc) :
        g \in EvalGravity, v \in EvalVelocity, t \in EvalThickness, c \in EvalCO2,
        o \in EvalO2, a \in EvalAmbientTemp, li \in EvalLightIntensity,
        lc \in EvalLightColor}
    \cup
    {Call("calculatePhysicsSimple", g, v, t, c, o, a, undefined, "undefined") :
        g \in EvalGravity, v \in EvalVelocity, t \in EvalThickness, c \in EvalCO2,
        o \in EvalO2, a \in EvalAmbientTemp}

InitEval ==
    /\ lastCall \in EvalCalls
    /\ panel = IF lastCall.fn = "calculatePhysics" THEN "light" ELSE "simple"
    /\ simState = INITIAL_STATE
    /\ state = INITIAL_STATE
    /\ lastEvent = NoEvent
    /\ events = 0
    /\ history = initialData
    /\ elapsed = 0
    /\ samples = 0

Evaluate ==
    /\ lastCall.phase = "called"
    /\ lastCall' = Return(lastCall)
    /\ UNCHANGED <<panel, simState, state, lastEvent, events, history, elapsed, samples>>

NextEval == Evaluate

SpecEval == InitEval /\ [][NextEval]_vars

(***************************************************************************)
(* Claims                                                                  *)
(***************************************************************************)
Returned == lastCall.phase = "returned"

LightCall == lastCall.fn = "calculatePhysics"

\* the call's arguments are (gravity, velocity, baseThickness, 400 ppm, 21 %,
\* 22 C, light 0, White) and it went to the light-aware evaluator
ScenarioCall(gravity, velocity, baseThickness) ==
    /\ LightCall
    /\ lastCall.gravity = gravity
    /\ lastCall.velocity = velocity
    /\ lastCall.userThickness = baseThickness
    /\ lastCall.co2Lvl = Int2Num(400)
    /\ lastCall.o2Lvl = Int2Num(21)
    /\ lastCall.ambientTemp = Int2Num(22)
    /\ lastCall.lightInt = Int2Num(0)
    /\ lastCall.lightCol = "#ffffff"

ScenarioA == ScenarioCall(Int2Num(1), Int2Num(0), Rat(4, 10))

ScenarioC == ScenarioCall(Int2Num(0), Int2Num(0), Rat(25, 10))

\* C1 as stated: Scenario A (gravity 1, velocity 0, base thickness 0.4, CO2 400,
\* O2 21, ambient 22, light 0, White) returns thickness 0.4, co2Flux 100,
\* o2Flux 90, temperature 23.2 and stressLevel 10.
C1_ScenarioA_Stress10 ==
    (Returned /\ ScenarioA) =>
        /\ lastCall.result.boundaryLayerThickness = Rat(4, 10)
        /\ lastCall.result.co2Flux = Int2Num(100)
        /\ lastCall.result.o2Flux = Int2Num(90)
        /\ lastCall.result.temperature = Rat(232, 10)
        /\ lastCall.result.stressLevel = Int2Num(10)

\* C1 amended: Scenario A returns thickness 0.4, co2Flux 100, o2Flux 90,
\* temperature 23.2, photosyntheticEfficiency 0 and stressLevel 30: with the
\* light off the efficiency is 0 < 30, so the low-efficiency penalty of 20 is
\* added to the base 10 and no other penalty applies.
C1_ScenarioA ==
    (Returned /\ ScenarioA) =>
        /\ lastCall.result.boundaryLayerThickness = Rat(4, 10)
        /\ lastCall.result.co2Flux = Int2Num(100)
        /\ lastCall.result.o2Flux = Int2Num(90)
        /\ lastCall.result.temperature = Rat(232, 10)
        /\ lastCall.result.photosyntheticEfficiency = Int2Num(0)
        /\ lastCall.result.stressLevel = Int2Num(30)

C1_Witness == Returned /\ ScenarioA

\* C2 as stated: Scenario C (gravity 0, velocity 0, base thickness 2.5, CO2 400,
\* O2 21, ambient 22, light 0, White) returns thickness 2.5, co2Flux 16,
\* temperature 29.5 and stressLevel 40.
C2_ScenarioC_Stress40 ==
    (Returned /\ ScenarioC) =>
        /\ lastCall.result.boundaryLayerThickness = Rat(25, 10)
        /\ lastCall.result.co2Flux = Int2Num(16)
        /\ lastCall.result.temperature = Rat(295, 10)
        /\ lastCall.result.stressLevel = Int2Num(40)

\* C2 amended: Scenario C returns thickness 2.5, co2Flux 16, temperature 29.5
\* and stressLevel 60: the thickness > 1.5 penalty (30) and, the efficiency
\* being 0 with the light off, the efficiency < 30 penalty (20) are added to
\* the base 10; co2Flux = 16 is not below 15 and 29.5 is not above 30.
C2_ScenarioC ==
    (Returned /\ ScenarioC) =>
        /\ lastCall.result.boundaryLayerThickness = Rat(25, 10)
        /\ lastCall.result.co2Flux = Int2Num(16)
        /\ lastCall.result.temperature = Rat(295, 10)
        /\ lastCall.result.photosyntheticEfficiency = Int2Num(0)
        /\ lastCall.result.stressLevel = Int2Num(60)

C2_Witness == Returned /\ ScenarioC /\ lastCall.result.co2Flux = Int2Num(16)

\* the value step 9 gives for a stored state: base 10, +30 if thickness > 1.5,
\* +30 if co2Flux < 15, +5 per degree above 30 and, on the light-aware panel,
\* +20 if efficiency < 30; at most 100
StepNineStress(st) ==
    MathMin(Add(Add(Add(Add(Int2Num(10),
                IF Gt(st.boundaryLayerThickness, Rat(3, 2)) THEN Int2Num(30) ELSE Int2Num(0)),
                IF Lt(st.co2Flux, Int2Num(15)) THEN Int2Num(30) ELSE Int2Num(0)),
                IF Gt(st.temperature, Int2Num(30))
                THEN Mul(Int2Num(5), Sub(st.temperature, Int2Num(30))) ELSE Int2Num(0)),
                IF panel = "light" /\ Lt(st.photosyntheticEfficiency, Int2Num(30))
                THEN Int2Num(20) ELSE Int2Num(0)),
            Int2Num(100))

\* C3: in every reachable state, the initial snapshot included, each derived
\* field equals the evaluator's result for the state's own fields:
\* co2Flux = 0.2*ambientCO2 / max(2*boundaryLayerThickness, 0.5),
\* o2Flux = 0.9*co2Flux, temperature = ambientTemperature +
\* 3*boundaryLayerThickness + 2.5*lightIntensity, stressLevel = the step-9 value.
C3_DerivedFromInputs ==
    /\ simState.co2Flux =
          Div(Mul(Rat(2, 10), simState.ambientCO2),
              MathMax(Mul(Int2Num(2), simState.boundaryLayerThickness), Rat(1, 2)))
    /\ simState.o2Flux = Mul(Rat(9, 10), simState.co2Flux)
    /\ simState.temperature =
          Add(Add(simState.ambientTemperature,
                  Mul(Int2Num(3), simState.boundaryLayerThickness)),
              Mul(Rat(5, 2), simState.lightIntensity))
    /\ simState.stressLevel = StepNineStress(simState)

\* the evaluator's first divisor, 1 + 0.5*velocity, for the call's velocity
VelocityDivisor == Add(Int2Num(1), Mul(Rat(1, 2), lastCall.velocity))

InRange(x, lo, hi) == Ge(x, lo) /\ Le(x, hi)

\* C4: the evaluator is total: for every numeric input tuple, out-of-range
\* values included, the divisor 1 + 0.5*velocity is not zero, the divisor
\* max(resistance, 0.5) is not zero, thickness is in [0.2, 4.0] and
\* stressLevel is in [0, 100].
C4_Total ==
    Returned =>
        /\ VelocityDivisor # Int2Num(0)
        /\ MathMax(Mul(lastCall.result.boundaryLayerThickness, Int2Num(2)), Rat(1, 2))
              # Int2Num(0)
        /\ InRange(lastCall.result.boundaryLayerThickness, Rat(2, 10), Int2Num(4))
        /\ InRange(lastCall.result.stressLevel, Int2Num(0), Int2Num(100))

\* C5: the session's state is created with the fixed initial snapshot: Earth
\* gravity (EARTH_1G, factor 1.0), thickness 0.4, CO2 400, O2 21, ambient 22,
\* and white light at rest (lightColor White and a lightIntensity value), so
\* every input the evaluator reads is defined before the first control event.
C5_InitialSnapshot ==
    events = 0 =>
        /\ simState.gravityMode = GravityMode.EARTH_1G
        /\ simState.gravityFactor = Int2Num(1)
        /\ simState.boundaryLayerThickness = Rat(4, 10)
        /\ simState.ambientCO2 = Int2Num(400)
        /\ simState.ambientO2 = Int2Num(21)
        /\ simState.ambientTemperature = Int2Num(22)
        /\ simState.airVelocity # undefined
        /\ simState.lightColor = "#ffffff"
        /\ simState.lightIntensity # undefined

PresetGravity(mode) == IF mode = GravityMode.EARTH_1G THEN Int2Num(1) ELSE Int2Num(0)

PresetBase(mode) == IF mode = GravityMode.EARTH_1G THEN Rat(4, 10) ELSE Rat(25, 10)

\* C6: from any current state X, the EARTH_1G preset publishes gravityMode
\* EARTH_1G and gravityFactor 1.0 and evaluates with base thickness 0.4, the
\* MICRO_UG preset publishes MICRO_UG and 0.0 and evaluates with base 2.5,
\* whatever X's thickness; the published boundaryLayerThickness is
\* clamp(base / (1 + 0.5*X.airVelocity), 0.2, 4.0).
C6_PresetProperty ==
    [][lastEvent'.control = "preset" =>
          /\ simState'.gravityMode = lastEvent'.value
          /\ simState'.gravityFactor = PresetGravity(lastEvent'.value)
          /\ lastCall'.userThickness = PresetBase(lastEvent'.value)
          /\ simState'.boundaryLayerThickness =
                MathMin(MathMax(Div(PresetBase(lastEvent'.value),
                                    Add(Int2Num(1), Mul(Rat(1, 2), simState.airVelocity))),
                                Rat(2, 10)),
                        Int2Num(4))]_vars

\* a MICRO_UG preset handled at airVelocity 5 after the thickness slider had
\* been set: 2.5 / 3.5 = 5/7 is published
C6_Witness ==
    /\ lastEvent.control = "preset"
    /\ lastEvent.value = GravityMode.MICRO_UG
    /\ events >= 3
    /\ simState.airVelocity = Int2Num(5)
    /\ simState.gravityFactor = Int2Num(0)
    /\ simState.boundaryLayerThickness = Rat(5, 7)

PresetFrame ==
    {"airVelocity", "ambientCO2", "ambientO2", "ambientTemperature",
     "lightIntensity", "lightColor"}

\* C7: a preset event leaves every other input unchanged: airVelocity,
\* ambientCO2, ambientO2, ambientTemperature, lightIntensity and lightColor
\* after the preset equal their values before it.
C7_PresetFrame ==
    [][lastEvent'.control = "preset" =>
          \A f \in PresetFrame : simState'[f] = simState[f]]_vars

\* a preset handled after velocity, CO2 and light intensity had been moved off
\* their initial values
C7_Witness ==
    /\ lastEvent.control = "preset"
    /\ panel = "light"
    /\ simState.airVelocity = Int2Num(5)
    /\ simState.ambientCO2 = Int2Num(1500)
    /\ simState.lightIntensity = Int2Num(5)

\* the call's base thickness is in the slider's range [0.2, 4.0] and its
\* velocity is not negative
ThicknessDomain ==
    /\ InRange(lastCall.userThickness, Rat(2, 10), Int2Num(4))
    /\ Ge(lastCall.velocity, Int2Num(0))

\* the call's arguments are inside their declared domains
ValidInputs ==
    /\ InRange(lastCall.velocity, Int2Num(0), Int2Num(5))
    /\ InRange(lastCall.userThickness, Rat(2, 10), Int2Num(4))
    /\ InRange(lastCall.co2Lvl, Int2Num(200), Int2Num(1500))
    /\ InRange(lastCall.ambientTemp, Int2Num(15), Int2Num(35))
    /\ LightCall =>
          /\ InRange(lastCall.lightInt, Int2Num(0), Int2Num(5))
          /\ \E i \in 1..Len(LIGHT_COLORS) : LIGHT_COLORS[i].value = lastCall.lightCol

\* clamp(base / (1 + 0.5*v), 0.2, 4.0)
EffectiveThickness(base, v) ==
    MathMin(MathMax(Div(base, Add(Int2Num(1), Mul(Rat(1, 2), v))), Rat(2, 10)),
            Int2Num(4))

\* C8: for velocity >= 0 and base thickness in [0.2, 4.0] the effective
\* thickness both evaluators return lies in [0.2, 4.0] and is non-increasing in
\* velocity: a call with the same base and a velocity at least as large returns
\* a thickness at most as large.
C8_ThicknessMonotone ==
    (Returned /\ ThicknessDomain) =>
        /\ InRange(lastCall.result.boundaryLayerThickness, Rat(2, 10), Int2Num(4))
        /\ lastCall.result.boundaryLayerThickness =
              EffectiveThickness(lastCall.userThickness, lastCall.velocity)
        /\ \A v2 \in EvalVelocity :
              Ge(v2, lastCall.velocity) =>
                 Le(Return([lastCall EXCEPT !.velocity = v2]).result.boundaryLayerThickness,
                    lastCall.result.boundaryLayerThickness)

\* a call at velocity 0 whose thickness is strictly above what the same base
\* gives at velocity 5, neither of them clamped
C8_Witness ==
    /\ Returned /\ ThicknessDomain
    /\ lastCall.velocity = Int2Num(0)
    /\ lastCall.userThickness = Rat(25, 10)
    /\ lastCall.result.boundaryLayerThickness = Rat(25, 10)
    /\ Return([lastCall EXCEPT !.velocity = Int2Num(5)]).result.boundaryLayerThickness
          = Rat(5, 7)

\* C9: for inputs inside their declared domains the light-aware evaluator's
\* stressLevel and photosyntheticEfficiency both lie in [0, 100].
C9_StressEfficiencyBounded ==
    (Returned /\ LightCall /\ ValidInputs) =>
        /\ InRange(lastCall.result.stressLevel, Int2Num(0), Int2Num(100))
        /\ InRange(lastCall.result.photosyntheticEfficiency, Int2Num(0), Int2Num(100))

\* a valid call where the efficiency clamp acts: red light at intensity 5,
\* ambient 15 C, thin layer, ample CO2: the raw product is 120, reported as 100
C9_Witness ==
    /\ Returned /\ LightCall /\ ValidInputs
    /\ lastCall.lightInt = Int2Num(5)
    /\ lastCall.lightCol = "#ff0000"
    /\ lastCall.ambientTemp = Int2Num(15)
    /\ lastCall.result.photosyntheticEfficiency = Int2Num(100)
    /\ lastCall.result.stressLevel = Int2Num(10)

\* C10: for valid inputs the o2Flux an evaluator returns equals 0.9 times the
\* co2Flux returned by the same call.
C10_O2FluxRatio ==
    (Returned /\ ValidInputs) =>
        lastCall.result.o2Flux = Mul(lastCall.result.co2Flux, Rat(9, 10))

C10_Witness ==
    /\ Returned /\ ValidInputs
    /\ lastCall.result.co2Flux = Int2Num(600)
    /\ lastCall.result.o2Flux = Int2Num(540)

ScenarioB == ScenarioCall(Int2Num(1), Int2Num(5), Rat(4, 10))

\* C11: Scenario B (the Scenario A inputs with velocity 5): the scrubbed
\* thickness 0.4 / 3.5 = 4/35 is below the floor and is returned as 0.2, the
\* resistance 2 * 0.2 = 0.4 is below 0.5 so the max(resistance, 0.5) guard
\* applies, and co2Flux = 80 / 0.5 = 160.
C11_ScenarioB ==
    (Returned /\ ScenarioB) =>
        /\ VelocityScrub(lastCall.userThickness, lastCall.velocity) = Rat(4, 35)
        /\ Lt(Rat(4, 35), Rat(2, 10))
        /\ lastCall.result.boundaryLayerThickness = Rat(2, 10)
        /\ Mul(lastCall.result.boundaryLayerThickness, Int2Num(2)) = Rat(4, 10)
        /\ Lt(Rat(4, 10), Rat(1, 2))
        /\ lastCall.result.co2Flux = Div(Int2Num(80), Rat(1, 2))
        /\ lastCall.result.co2Flux = Int2Num(160)

C11_Witness == Returned /\ ScenarioB /\ lastCall.result.o2Flux = Int2Num(144)

\* the boundaryLayerThickness in the override set of the light-aware panel's
\* event ev: the slider's value, or the preset's canonical base
OverrideThickness(ev) ==
    IF ev.control = "preset" THEN PresetBase(ev.value) ELSE ev.value

\* C12: when the override set of a light-aware control event includes
\* boundaryLayerThickness = b (the thickness slider, a preset), b is the base
\* thickness handed to the evaluator, whatever the previous state's thickness,
\* and the thickness the event publishes is
\* clamp(b / (1 + 0.5*airVelocity), 0.2, 4.0) for the merged airVelocity.
C12_OverrideIsBase ==
    [][(panel = "light" /\ lastEvent'.control \in {"thickness", "preset"}) =>
          /\ lastCall'.userThickness = OverrideThickness(lastEvent')
          /\ lastCall'.velocity = simState'.airVelocity
          /\ simState'.boundaryLayerThickness =
                EffectiveThickness(OverrideThickness(lastEvent'), simState'.airVelocity)]_vars

\* the thickness slider set to 4.0 at airVelocity 5: 4 / 3.5 = 8/7 is published
C12_Witness ==
    /\ panel = "light"
    /\ lastEvent.control = "thickness"
    /\ lastEvent.value = Int2Num(4)
    /\ lastCall.userThickness = Int2Num(4)
    /\ simState.airVelocity = Int2Num(5)
    /\ simState.boundaryLayerThickness = Rat(8, 7)

InputFields ==
    {"gravityMode", "gravityFactor", "airVelocity", "ambientCO2", "ambientO2",
     "ambientTemperature", "lightIntensity", "lightColor"}

\* the input fields the handler of a control names in what it overrides; the
\* simpler panel's gravity slider names gravityMode next to gravityFactor
OverrideSet(p, control) ==
    CASE control = "preset"    -> {"gravityMode", "gravityFactor"}
      [] control = "gravity"   -> IF p = "light" THEN {"gravityFactor"}
                                  ELSE {"gravityFactor", "gravityMode"}
      [] control = "thickness" -> {}
      [] control = "velocity"  -> {"airVelocity"}
      [] control = "color"     -> {"lightColor"}
      [] control = "intensity" -> {"lightIntensity"}
      [] control = "temp"      -> {"ambientTemperature"}
      [] control = "co2"       -> {"ambientCO2"}
      [] control = "o2"        -> {"ambientO2"}
      [] OTHER                 -> InputFields

\* C13: a control event leaves every input field not named in its override set
\* equal to its value in the previous state: after a slider event on one
\* input, each of gravityMode, gravityFactor, airVelocity, ambientCO2,
\* ambientO2, ambientTemperature, lightIntensity and lightColor other than the
\* overridden one is unchanged in the stored state.
C13_EventFrame ==
    [][events' = events + 1 =>
          \A f \in InputFields \ OverrideSet(panel, lastEvent'.control) :
              simState'[f] = simState[f]]_vars

\* the light-aware CO2 slider moved after velocity, light intensity and
\* ambient temperature had been moved off their initial values
C13_Witness ==
    /\ panel = "light"
    /\ lastEvent.control = "co2"
    /\ simState.ambientCO2 = Int2Num(1500)
    /\ simState.airVelocity = Int2Num(5)
    /\ simState.lightIntensity = Int2Num(5)
    /\ simState.ambientTemperature = Int2Num(35)
    /\ simState.gravityMode = GravityMode.EARTH_1G

\* C14: in every state reachable from the initial snapshot by control events
\* whose slider values lie in the sliders' ranges, under either panel, the
\* stored boundaryLayerThickness lies in [0.2, 4.0].
C14_StoredThicknessInRange ==
    InRange(simState.boundaryLayerThickness, Rat(2, 10), Int2Num(4))

\* the simpler panel's gravity slider at 0 after the thickness slider stored
\* 4.0 at velocity 0: the base 4.0 * 2 = 8 is handed over, 4.0 is stored
C14_Witness ==
    /\ panel = "simple"
    /\ lastEvent.control = "gravity"
    /\ lastCall.userThickness = Int2Num(8)
    /\ lastCall.velocity = Int2Num(0)
    /\ simState.boundaryLayerThickness = Int2Num(4)

\* C15: the light-aware stress level is min(100, 10 + 30*[thickness > 1.5] +
\* 30*[co2Flux < 15] + 5*(temperature - 30)*[temperature > 30] +
\* 20*[efficiency < 30]) of the returned fields, the thresholds strict; at
\* temperature 31 with thickness > 1.5, co2Flux < 15 and efficiency < 30 the
\* four penalties are summed onto 10 (95), and a sum above 100 is reported
\* as 100.
C15_StressFormula ==
    (Returned /\ LightCall) =>
        /\ lastCall.result.stressLevel = StepNineStress(lastCall.result)
        /\ Le(lastCall.result.stressLevel, Int2Num(100))
        /\ (/\ lastCall.result.temperature = Int2Num(31)
            /\ Gt(lastCall.result.boundaryLayerThickness, Rat(3, 2))
            /\ Lt(lastCall.result.co2Flux, Int2Num(15))
            /\ Lt(lastCall.result.photosyntheticEfficiency, Int2Num(30)))
           => lastCall.result.stressLevel = Int2Num(10 + 30 + 30 + 5 + 20)
        /\ (/\ lastCall.result.boundaryLayerThickness = Rat(3, 2)
            /\ Ge(lastCall.result.co2Flux, Int2Num(15))
            /\ Le(lastCall.result.temperature, Int2Num(30))
            /\ Ge(lastCall.result.photosyntheticEfficiency, Int2Num(30)))
           => lastCall.result.stressLevel = Int2Num(10)
        /\ (/\ lastCall.result.co2Flux = Int2Num(15)
            /\ lastCall.result.boundaryLayerThickness = Rat(8, 3)
            /\ Le(lastCall.result.temperature, Int2Num(30))
            /\ Ge(lastCall.result.photosyntheticEfficiency, Int2Num(30)))
           => lastCall.result.stressLevel = Int2Num(10 + 30)

\* Scenario D: base 2.5 at velocity 0, CO2 200, ambient 23.5, light off:
\* temperature 23.5 + 7.5 = 31, co2Flux 8, efficiency 0, stress 95
C15_Witness ==
    /\ Returned /\ LightCall
    /\ lastCall.ambientTemp = Rat(47, 2)
    /\ lastCall.result.temperature = Int2Num(31)
    /\ lastCall.result.boundaryLayerThickness = Rat(25, 10)
    /\ lastCall.result.co2Flux = Int2Num(8)
    /\ lastCall.result.photosyntheticEfficiency = Int2Num(0)
    /\ lastCall.result.stressLevel = Int2Num(95)

\* the colour's constant: White 0.9, Red 1.0, Blue 1.0, Green 0.4, Far-Red 0.2,
\* any other colour as White
SpectralConstant(lightCol) ==
    CASE lightCol = "#ff0000" -> Int2Num(1)
      [] lightCol = "#0000ff" -> Int2Num(1)
      [] lightCol = "#00ff00" -> Rat(4, 10)
      [] lightCol = "#8b0000" -> Rat(2, 10)
      [] OTHER                -> Rat(9, 10)

\* 1 for a temperature in [15, 30], max(0, 1 - 0.1*d) at d degrees outside it
BandPenalty(t) ==
    IF InRange(t, Int2Num(15), Int2Num(30)) THEN Int2Num(1)
    ELSE IF Gt(t, Int2Num(30))
         THEN MathMax(Int2Num(0), Sub(Int2Num(1), Mul(Rat(1, 10), Sub(t, Int2Num(30)))))
         ELSE MathMax(Int2Num(0), Sub(Int2Num(1), Mul(Rat(1, 10), Sub(Int2Num(15), t))))

\* C16: photosynthetic efficiency is clamp(100 * s * min(lightIntensity / 2,
\* 1.2) * tp * min(co2Flux / 40, 1), 0, 100), s the selected colour's constant
\* (an unrecognised colour counts as White), tp 1 for a leaf temperature in
\* [15, 30] and max(0, 1 - 0.1*d) at d degrees outside the band on either side.
C16_EfficiencyFormula ==
    (Returned /\ LightCall) =>
        lastCall.result.photosyntheticEfficiency =
            MathMin(MathMax(
                Mul(Mul(Mul(Mul(Int2Num(100), SpectralConstant(lastCall.lightCol)),
                            MathMin(Div(lastCall.lightInt, Int2Num(2)), Rat(12, 10))),
                        BandPenalty(lastCall.result.temperature)),
                    MathMin(Div(lastCall.result.co2Flux, Int2Num(40)), Int2Num(1))),
                Int2Num(0)), Int2Num(100))

\* red light at intensity 2, ambient 0, base 2.5 at velocity 0, CO2 1500: the
\* leaf is at 12.5, 2.5 degrees below the band, and the efficiency is 75
C16_Witness ==
    /\ Returned /\ LightCall
    /\ lastCall.lightCol = "#ff0000"
    /\ lastCall.lightInt = Int2Num(2)
    /\ lastCall.result.temperature = Rat(25, 2)
    /\ lastCall.result.co2Flux = Int2Num(60)
    /\ lastCall.result.photosyntheticEfficiency = Int2Num(75)

\* the results of the call made again with each other base thickness
OtherThicknessResults ==
    {Return([lastCall EXCEPT !.userThickness = t2]).result : t2 \in EvalThickness}

\* C17: co2Flux = 0.2*ambientCO2 / max(2*thickness, 0.5) for the returned
\* effective thickness; for ambientCO2 >= 0 it is non-negative, at most
\* 0.4*ambientCO2, non-increasing in the effective thickness, and the same for
\* every effective thickness in [0.2, 0.25], where the 0.5 floor applies.
C17_Co2FluxShape ==
    (/\ Returned
     /\ Ge(lastCall.co2Lvl, Int2Num(0))
     /\ InRange(lastCall.result.boundaryLayerThickness, Rat(2, 10), Int2Num(4))) =>
        /\ lastCall.result.co2Flux =
              Div(Mul(Rat(2, 10), lastCall.co2Lvl),
                  MathMax(Mul(Int2Num(2), lastCall.result.boundaryLayerThickness),
                          Rat(1, 2)))
        /\ Ge(lastCall.result.co2Flux, Int2Num(0))
        /\ Le(lastCall.result.co2Flux, Mul(Rat(4, 10), lastCall.co2Lvl))
        /\ \A r2 \in OtherThicknessResults :
              /\ (/\ InRange(r2.boundaryLayerThickness, Rat(2, 10), Int2Num(4))
                  /\ Ge(r2.boundaryLayerThickness, lastCall.result.boundaryLayerThickness))
                 => Le(r2.co2Flux, lastCall.result.co2Flux)
              /\ (/\ InRange(r2.boundaryLayerThickness, Rat(2, 10), Rat(1, 4))
                  /\ InRange(lastCall.result.boundaryLayerThickness, Rat(2, 10), Rat(1, 4)))
                 => r2.co2Flux = lastCall.result.co2Flux

\* effective thickness 0.25 at CO2 400: the resistance is exactly 0.5 and the
\* flux 160 = 0.4 * 400, as it is for base 0.2
C17_Witness ==
    /\ Returned
    /\ lastCall.co2Lvl = Int2Num(400)
    /\ lastCall.velocity = Int2Num(0)
    /\ lastCall.result.boundaryLayerThickness = Rat(1, 4)
    /\ lastCall.result.co2Flux = Int2Num(160)
    /\ Return([lastCall EXCEPT !.userThickness = Rat(2, 10)]).result.co2Flux = Int2Num(160)

\* C18: control events are applied one at a time against the latest stored
\* state: whichever snapshot the handler of an event ran with, the snapshot
\* rendered before the previous event's result was stored included, the state
\* stored after the event is the one its handler produces from the stored state
\* before it, so the state after two events holds both overridden inputs and
\* derived fields computed from both.
C18_AppliedToLatest ==
    [][events' = events + 1 =>
          simState' = handleStateUpdate(simState,
                                        RunHandler(panel, lastEvent', simState).updates)]_vars

\* C19: while the chart is mounted its sampling is fixed-interval: a control
\* event, also one that changes co2Flux or o2Flux, neither postpones nor
\* suppresses the next sample, so the time the interval timer has run is the
\* same after the event as before it and the sample still comes 500 ms after
\* the previous one.
C19_EventsLeaveTimer ==
    [][events' = events + 1 => elapsed' = elapsed]_vars

\* C20: in the light-aware panel, an event that does not override
\* boundaryLayerThickness and whose value equals the value already stored for
\* its input (the same slider value again, the same event twice in a row)
\* leaves every field of the stored state unchanged.
C20_RepeatedEventIdempotent ==
    [][(/\ panel = "light"
        /\ events' = events + 1
        /\ lastEvent'.control \notin {"thickness", "preset"}
        /\ \A f \in OverrideSet(panel, lastEvent'.control) :
               simState[f] = lastEvent'.value)
       => simState' = simState]_vars

\* C21: in the light-aware panel, with airVelocity >= 0, a control event that
\* does not override boundaryLayerThickness (any slider but the thickness
\* slider, a colour button) never increases the stored thickness, and a stored
\* thickness of 0.2 stays 0.2 until a preset or thickness-slider event.
C21_ThicknessNeverGrows ==
    [][(/\ panel = "light"
        /\ events' = events + 1
        /\ lastEvent'.control \notin {"thickness", "preset"}
        /\ Ge(simState'.airVelocity, Int2Num(0)))
       => /\ Le(simState'.boundaryLayerThickness, simState.boundaryLayerThickness)
          /\ simState.boundaryLayerThickness = Rat(2, 10)
                => simState'.boundaryLayerThickness = Rat(2, 10)]_vars

\* the velocity slider set to 0 with the stored thickness already at the
\* floor: the event before it left 0.2, and 0.2 / 1 is stored again
C21_Witness ==
    /\ panel = "light"
    /\ events >= 3
    /\ lastEvent.control = "velocity"
    /\ lastEvent.value = Int2Num(0)
    /\ lastCall.userThickness = Rat(2, 10)
    /\ simState.boundaryLayerThickness = Rat(2, 10)

NumericFields ==
    {"boundaryLayerThickness", "co2Flux", "o2Flux", "temperature", "stressLevel",
     "photosyntheticEfficiency"}

\* C22: starting from INITIAL_STATE, after any sequence of control events
\* handled by the light-aware panel every numeric field of the stored state
\* (boundaryLayerThickness, co2Flux, o2Flux, temperature, stressLevel,
\* photosyntheticEfficiency) is a defined number, none undefined or NaN.
C22_FieldsDefined ==
    (panel = "light" /\ events >= 1) =>
        \A f \in NumericFields : IsFinite(simState[f])

\* C23: in every state reachable through the light-aware panel gravityMode
\* agrees with gravityFactor: EARTH_1G exactly when gravityFactor > 0.5,
\* MICRO_UG otherwise.
C23_ModeAgreesWithFactor ==
    panel = "light" =>
        simState.gravityMode = IF Gt(simState.gravityFactor, Rat(1, 2))
                               THEN GravityMode.EARTH_1G ELSE GravityMode.MICRO_UG

\* gravity and ambient-O2 arguments to compare a call with
OtherGravity == {Int2Num(0), Rat(1, 2), Int2Num(1)}

OtherO2 == {Int2Num(15), Int2Num(21), Int2Num(30)}

\* C24: the light-aware evaluator's result does not depend on its gravity or
\* ambient-O2 arguments: a call that differs from the returned one only in
\* gravity and/or o2 returns the same thickness, co2Flux, o2Flux, temperature,
\* efficiency and stress.
C24_GravityO2Irrelevant ==
    (Returned /\ LightCall) =>
        \A g2 \in OtherGravity, o2 \in OtherO2 :
            Return([lastCall EXCEPT !.gravity = g2, !.o2Lvl = o2]).result
                = lastCall.result

\* a returned call at gravity 1 with a thickness above the floor, equal to
\* what the same arguments give at gravity 0 and O2 30
C24_Witness ==
    /\ Returned /\ LightCall
    /\ lastCall.gravity = Int2Num(1)
    /\ lastCall.o2Lvl = Int2Num(21)
    /\ lastCall.userThickness = Rat(25, 10)
    /\ lastCall.velocity = Int2Num(1)
    /\ lastCall.result.boundaryLayerThickness = Rat(5, 3)
    /\ Return([lastCall EXCEPT !.gravity = Int2Num(0),
                               !.o2Lvl = Int2Num(30)]).result.boundaryLayerThickness
          = Rat(5, 3)

\* the points a callback can build from the rendered state
SamplePoints ==
    {NewPoint(state, label, r1, r2) :
        label \in ClockLabels, r1 \in Random01, r2 \in Random01}

\* C25: the chart history is a sliding window: it holds 20 points after mount,
\* its length never exceeds 30, and each tick of the interval appends the new
\* sample at the end and, when that makes the length 31, removes exactly the
\* oldest point, so the points kept are the most recent ones in arrival order.
C25_SlidingWindow ==
    /\ [](/\ Len(history) <= 30
          /\ history = initialData => Len(history) = 20)
    /\ [][samples' = samples + 1 =>
             /\ history'[Len(history')] \in SamplePoints
             /\ history' = IF Len(history) + 1 = 31
                           THEN Tail(history) \o <<history'[Len(history')]>>
                           ELSE history \o <<history'[Len(history')]>>]_vars

\* two samples taken with the window full: the mount-time points 0 and 1 are
\* gone, point 2 is the oldest and the newest is a sample
C25_Witness ==
    /\ samples = 2
    /\ Len(history) = 30
    /\ history[1].time = IndexTime(2)
    /\ history[30].time = LabelTime("h:m:s")
    /\ history[30] \in SamplePoints

====
